---- MODULE Spec2Model ----
(***************************************************************************)
(* Model of backend/src/db/user_database.py: the User record (validation   *)
(* at construction, password hashing and verification) and UserDatabase,   *)
(* an in-memory dict keyed by cpf that is reloaded from and rewritten to   *)
(* one jsonpickle file.                                                    *)
(*                                                                         *)
(* Python values are modelled as follows.                                  *)
(*   None / an object      <<>> / <<obj>>                                  *)
(*   dict (ordered)        a sequence of [key, val] entries, distinct keys *)
(*   str (validated input) a sequence of one-character strings             *)
(*   the file              [exists, text]; text is the JSON document held  *)
(*                         by the file, [kind, items]                      *)
(*   a call in progress    call[s]: where instance s is inside add_user    *)
(* A stored User carries the fields the store reads (cpf, username, nome); *)
(* the numeric id (line 63) and get_user_by_id are outside the model.      *)
(***************************************************************************)
EXTENDS Integers, Sequences, FiniteSets, TLC

VARIABLES db, file, last, user, rlast, call

vars == <<db, file, last, user, rlast, call>>

storeVars == <<db, file, last>>
recordVars == <<user, rlast>>
callVars == <<call>>

----------------------------------------------------------------------------
(* Bounds *)

NumStores == 2
NumCpf == 2
NumNames == 2

Stores == 1..NumStores
CPFs == 1..NumCpf
Names == 1..NumNames

\* User objects as the store sees them: already constructed (validated).
Users == [cpf : CPFs, username : Names, nome : Names]

None == <<>>
Some(x) == <<x>>

----------------------------------------------------------------------------
(* dict *)

dict_keys(d) == {d[i].key : i \in DOMAIN d}

dict_get(d, k) ==
    LET I == {i \in DOMAIN d : d[i].key = k}
    IN  IF I = {} THEN None ELSE Some(d[CHOOSE i \in I : TRUE].val)

dict_setitem_front(d, k, v) ==
    IF k \in dict_keys(d)
    THEN [i \in DOMAIN d |-> IF d[i].key = k THEN [key |-> k, val |-> v] ELSE d[i]]
    ELSE <<[key |-> k, val |-> v]>> \o d

dict_setitem(d, k, v) ==
    IF k \in dict_keys(d)
    THEN [i \in DOMAIN d |-> IF d[i].key = k THEN [key |-> k, val |-> v] ELSE d[i]]
    ELSE Append(d, [key |-> k, val |-> v])

dict_pop(d, k) == SelectSeq(d, LAMBDA e : e.key # k)

dict_values(d) == [i \in DOMAIN d |-> d[i].val]

----------------------------------------------------------------------------
(* jsonpickle: the file holds a JSON document.                             *)
(*   kind "object"  a JSON object without py/object tag: decodes to a dict *)
(*   kind "array"   a JSON value that decodes to a non-dict (a list)       *)
(*   kind "empty"   the empty string: the JSON decoder raises              *)
(*   kind "garbage" text that is not JSON: the JSON decoder raises         *)
(*   kind "none"    the file does not exist                                *)
(* A User is flattened to a tagged JSON object and restored from it.       *)

NoText == [kind |-> "none", items |-> <<>>]
NoFile == [exists |-> FALSE, text |-> NoText]

flatten(u) == [py_object |-> "User", cpf |-> u.cpf, username |-> u.username, nome |-> u.nome]

restore_swapped(j) == [cpf |-> j.cpf, username |-> j.nome, nome |-> j.username]

restore(j) == [cpf |-> j.cpf, username |-> j.username, nome |-> j.nome]

jsonpickle_encode(d) ==
    [kind |-> "object",
     items |-> [i \in DOMAIN d |-> [name |-> d[i].key, value |-> flatten(d[i].val)]]]

jsonpickle_decode(text) ==
    CASE text.kind = "object" ->
            [raised |-> FALSE, type |-> "dict",
             value |-> [i \in DOMAIN text.items |->
                          [key |-> text.items[i].name, val |-> restore(text.items[i].value)]]]
      [] text.kind = "array" -> [raised |-> FALSE, type |-> "list", value |-> <<>>]
      [] OTHER -> [raised |-> TRUE, type |-> "none", value |-> <<>>]

----------------------------------------------------------------------------
(* UserDatabase methods as functions of the instance's dict d and the file *)
(* f.  Each returns the dict and file it leaves, whether it raised, and    *)
(* whether it called write_to_file.                                        *)

write_to_file(d) == [exists |-> TRUE, text |-> jsonpickle_encode(d)]

Step(d, f, raised, wrote) == [db |-> d, file |-> f, raised |-> raised, wrote |-> wrote]

try_read_from_file_empty(d, f) ==
    IF ~f.exists
    THEN Step(d, write_to_file(<<>>), FALSE, TRUE)
    ELSE LET dec == jsonpickle_decode(f.text)
         IN  IF dec.raised THEN Step(d, f, TRUE, FALSE)
             ELSE IF dec.type = "dict" THEN Step(dec.value, f, FALSE, FALSE)
             ELSE Step(d, f, FALSE, FALSE)

try_read_from_file(d, f) ==
    IF ~f.exists
    THEN Step(d, write_to_file(d), FALSE, TRUE)
    ELSE LET dec == jsonpickle_decode(f.text)
         IN  IF dec.raised THEN Step(d, f, TRUE, FALSE)
             ELSE IF dec.type = "dict" THEN Step(dec.value, f, FALSE, FALSE)
             ELSE Step(d, f, FALSE, FALSE)

Reload_never(d, f, update) == Step(d, f, FALSE, FALSE)

\* "if update: self.try_read_from_file()"
Reload(d, f, update) ==
    IF update THEN try_read_from_file(d, f) ELSE Step(d, f, FALSE, FALSE)

get_user_by_cpf(d, cpf) == dict_get(d, cpf)

get_user_by_username_nome(d, username) ==
    LET I == {i \in DOMAIN d : d[i].val.nome = username}
    IN  IF I = {} THEN None
        ELSE Some(d[CHOOSE i \in I : \A j \in I : i <= j].val)

get_user_by_username(d, username) ==
    LET I == {i \in DOMAIN d : d[i].val.username = username}
    IN  IF I = {} THEN None
        ELSE Some(d[CHOOSE i \in I : \A j \in I : i <= j].val)

get_user_list(d) == dict_values(d)

Ret(st, ok, reason, out) ==
    [db |-> st.db, file |-> st.file, raised |-> st.raised, wrote |-> st.wrote,
     ok |-> ok, reason |-> reason, out |-> out]

add_user_no_cpf_check(d, f, u, update) ==
    LET r == Reload(d, f, update)
    IN  IF r.raised THEN Ret(r, FALSE, "RAISED", None)
        ELSE IF get_user_by_username(r.db, u.nome) # None THEN Ret(r, FALSE, "USER", None)
        ELSE LET d2 == dict_setitem(r.db, u.cpf, u)
             IN  Ret(Step(d2, write_to_file(d2), FALSE, TRUE), TRUE, "SUCCESS", None)

add_user_write_first(d, f, u, update) ==
    LET r == Reload(d, f, update)
    IN  IF r.raised THEN Ret(r, FALSE, "RAISED", None)
        ELSE IF get_user_by_cpf(r.db, u.cpf) # None THEN Ret(r, FALSE, "CPF", None)
        ELSE IF get_user_by_username(r.db, u.nome) # None THEN Ret(r, FALSE, "USER", None)
        ELSE LET d2 == dict_setitem(r.db, u.cpf, u)
             IN  Ret(Step(d2, write_to_file(r.db), FALSE, TRUE), TRUE, "SUCCESS", None)

add_user_user_first(d, f, u, update) ==
    LET r == Reload(d, f, update)
    IN  IF r.raised THEN Ret(r, FALSE, "RAISED", None)
        ELSE IF get_user_by_username(r.db, u.nome) # None THEN Ret(r, FALSE, "USER", None)
        ELSE IF get_user_by_cpf(r.db, u.cpf) # None THEN Ret(r, FALSE, "CPF", None)
        ELSE LET d2 == dict_setitem(r.db, u.cpf, u)
             IN  Ret(Step(d2, write_to_file(d2), FALSE, TRUE), TRUE, "SUCCESS", None)

add_user_write_on_failure(d, f, u, update) ==
    LET r == Reload(d, f, update)
        w == Step(r.db, write_to_file(r.db), FALSE, TRUE)
    IN  IF r.raised THEN Ret(r, FALSE, "RAISED", None)
        ELSE IF get_user_by_cpf(r.db, u.cpf) # None THEN Ret(w, FALSE, "CPF", None)
        ELSE IF get_user_by_username(r.db, u.nome) # None THEN Ret(w, FALSE, "USER", None)
        ELSE LET d2 == dict_setitem(r.db, u.cpf, u)
             IN  Ret(Step(d2, write_to_file(d2), FALSE, TRUE), TRUE, "SUCCESS", None)

add_user_keyed_by_username(d, f, u, update) ==
    LET r == Reload(d, f, update)
    IN  IF r.raised THEN Ret(r, FALSE, "RAISED", None)
        ELSE IF get_user_by_cpf(r.db, u.cpf) # None THEN Ret(r, FALSE, "CPF", None)
        ELSE IF get_user_by_username(r.db, u.nome) # None THEN Ret(r, FALSE, "USER", None)
        ELSE LET d2 == dict_setitem(r.db, u.username, u)
             IN  Ret(Step(d2, write_to_file(d2), FALSE, TRUE), TRUE, "SUCCESS", None)

add_user(d, f, u, update) ==
    LET r == Reload(d, f, update)
    IN  IF r.raised THEN Ret(r, FALSE, "RAISED", None)
        ELSE IF get_user_by_cpf(r.db, u.cpf) # None THEN Ret(r, FALSE, "CPF", None)
        ELSE IF get_user_by_username(r.db, u.nome) # None THEN Ret(r, FALSE, "USER", None)
        ELSE LET d2 == dict_setitem(r.db, u.cpf, u)
             IN  Ret(Step(d2, write_to_file(d2), FALSE, TRUE), TRUE, "SUCCESS", None)

\* add_user after its reload, lines 135-141: the same code with the reload
\* skipped
finish_add_user_reread(d, f, u) == add_user(d, f, u, TRUE)

finish_add_user(d, f, u) == add_user(d, f, u, FALSE)

remove_user_by_cpf_lazy(d, f, cpf, update) ==
    LET r == Reload(d, f, update)
    IN  IF r.raised THEN Ret(r, FALSE, "RAISED", None)
        ELSE LET toreturn == dict_get(r.db, cpf)
                 d2 == dict_pop(r.db, cpf)
             IN  IF toreturn = None THEN Ret(r, TRUE, "", None)
                 ELSE Ret(Step(d2, write_to_file(d2), FALSE, TRUE), TRUE, "", toreturn)

remove_user_by_cpf_keep(d, f, cpf, update) ==
    LET r == Reload(d, f, update)
    IN  IF r.raised THEN Ret(r, FALSE, "RAISED", None)
        ELSE Ret(Step(r.db, write_to_file(r.db), FALSE, TRUE), TRUE, "", dict_get(r.db, cpf))

remove_user_by_cpf_write_first(d, f, cpf, update) ==
    LET r == Reload(d, f, update)
    IN  IF r.raised THEN Ret(r, FALSE, "RAISED", None)
        ELSE LET toreturn == dict_get(r.db, cpf)
                 d2 == dict_pop(r.db, cpf)
             IN  Ret(Step(d2, write_to_file(r.db), FALSE, TRUE), TRUE, "", toreturn)

remove_user_by_cpf(d, f, cpf, update) ==
    LET r == Reload(d, f, update)
    IN  IF r.raised THEN Ret(r, FALSE, "RAISED", None)
        ELSE LET toreturn == dict_get(r.db, cpf)
                 d2 == dict_pop(r.db, cpf)
             IN  Ret(Step(d2, write_to_file(d2), FALSE, TRUE), TRUE, "", toreturn)

----------------------------------------------------------------------------
(* User: validation patterns (lines 16-19).  re.match anchors at the start *)
(* of the string; "$" matches at the end of the string and also just       *)
(* before a newline that ends the string; "." matches any character but a  *)
(* newline.                                                                *)

NL == "\n"

Digit == {"0", "1", "2", "3", "4", "5", "6", "7", "8", "9"}

Letter ==
    {"a", "b", "c", "d", "e", "f", "g", "h", "i", "j", "k", "l", "m",
     "n", "o", "p", "q", "r", "s", "t", "u", "v", "w", "x", "y", "z",
     "A", "B", "C", "D", "E", "F", "G", "H", "I", "J", "K", "L", "M",
     "N", "O", "P", "Q", "R", "S", "T", "U", "V", "W", "X", "Y", "Z"}

\* \w over the characters used here
Word == Digit \cup Letter \cup {"_"}

\* The part of s that "$" lets a match end at: s, or s without its final newline.
Ends(s) ==
    {s} \cup (IF Len(s) > 0 /\ s[Len(s)] = NL THEN {SubSeq(s, 1, Len(s) - 1)} ELSE {})

Shaped(b, seps) ==
    \A i \in DOMAIN b :
        IF i \in DOMAIN seps /\ seps[i] # "" THEN b[i] = seps[i] ELSE b[i] \in Digit

CpfShape == <<"", "", "", ".", "", "", "", ".", "", "", "", "-", "", "">>
CepShape == <<"", "", "", "", "", "-", "", "", "">>

cpf_pattern(s) == \E b \in Ends(s) : Len(b) = Len(CpfShape) /\ Shaped(b, CpfShape)

cep_pattern(s) == \E b \in Ends(s) : Len(b) = Len(CepShape) /\ Shaped(b, CepShape)

email_pattern(s) ==
    \E b \in Ends(s) : \E k \in DOMAIN b :
        /\ b[k] = "@"
        /\ 1 < k /\ k < Len(b)
        /\ \A i \in DOMAIN b : i # k => b[i] \in Word \cup {"."}

MinSenhaLen == 8

\* (?=.{8,})(?=.*[0-9].*)(?=.*[a-zA-Z].*) : all three look-aheads at position 0
FirstLine(s) ==
    LET N == {i \in DOMAIN s : s[i] = NL}
    IN  IF N = {} THEN s ELSE SubSeq(s, 1, (CHOOSE i \in N : \A j \in N : i <= j) - 1)

senha_pattern(s) ==
    LET l == FirstLine(s)
    IN  /\ Len(l) >= MinSenhaLen
        /\ \E i \in DOMAIN l : l[i] \in Digit
        /\ \E i \in DOMAIN l : l[i] \in Letter

----------------------------------------------------------------------------
(* User: password hashing.  hmac.new(key, msg, sha512).digest() is         *)
(* modelled as the pair (key, msg) and bcrypt's hashpw as the pair (salt,  *)
(* digest): both are injective.  checkpw re-hashes with the salt of the    *)
(* stored hash and compares.                                               *)

hmac_digest(key, msg) == <<key, msg>>

hashpw(digest, salt) == [salt |-> salt, digest |-> digest]

checkpw(digest, hashed) == hashpw(digest, hashed.salt) = hashed

add_password(u, senha, salt) ==
    [u EXCEPT !.senha = hashpw(hmac_digest(u.cpf, senha), salt)]

check_password_email(u, senha) == checkpw(hmac_digest(u.email, senha), u.senha)

check_password(u, senha) == checkpw(hmac_digest(u.cpf, senha), u.senha)

\* User.__new__ : None when a pattern does not match
new_ok(cpf, email, senha, CEP) ==
    /\ cpf_pattern(cpf)
    /\ CEP # None => cep_pattern(CEP[1])
    /\ email_pattern(email)
    /\ senha_pattern(senha)

NoHash == [salt |-> 0, digest |-> <<>>]

\* User.__init__
init_user(username, nome, cpf, email, senha, CEP, salt) ==
    add_password([made |-> TRUE, username |-> username, nome |-> nome, cpf |-> cpf,
                  CEP |-> CEP, email |-> email, senha |-> NoHash], senha, salt)

----------------------------------------------------------------------------
(* Inputs of the record operations *)

NumSalts == 2
MaxSenhaLen == 8

Salts == 1..NumSalts

Rep(c, n) == [i \in 1..n |-> c]

\* passwords a..a1..1, one character short of the minimum length and of
\* the maximum length
Senhas ==
    {p \in {Rep("a", i) \o Rep("1", j) : i \in 0..MaxSenhaLen, j \in 0..MaxSenhaLen} :
        Len(p) \in {MinSenhaLen - 1, MaxSenhaLen}}

Cpf1 == <<"1", "2", "3", ".", "4", "5", "6", ".", "7", "8", "9", "-", "0", "9">>
Cpf2 == <<"9", "8", "7", ".", "6", "5", "4", ".", "3", "2", "1", "-", "0", "0">>

CpfInputs ==
    {Cpf1, Cpf2, SelectSeq(Cpf1, LAMBDA c : c \in Digit), Cpf1 \o <<NL>>,
     [Cpf1 EXCEPT ![Len(Cpf1)] = "a"]}

Cep1 == <<"5", "0", "7", "4", "0", "-", "5", "6", "0">>

CepInputs == {None, Some(Cep1), Some(SelectSeq(Cep1, LAMBDA c : c \in Digit))}

EmailInputs == {<<"a", "@", "x", ".", "c">>, <<"a", "x", ".", "c">>}

NoUser ==
    [made |-> FALSE, username |-> 0, nome |-> 0, cpf |-> <<>>, CEP |-> None,
     email |-> <<>>, senha |-> NoHash]

NoCall == [op |-> "none", made |-> FALSE, arg |-> <<>>, set |-> <<>>, result |-> FALSE]

\* User(username, nome, sobrenome, cpf, data_de_nascimento, email, senha, CEP)
NewUser(username, nome, cpf, email, senha, CEP, salt) ==
    /\ IF new_ok(cpf, email, senha, CEP)
       THEN /\ user' = init_user(username, nome, cpf, email, senha, CEP, salt)
            /\ rlast' = [op |-> "init", made |-> TRUE, arg |-> senha, set |-> senha,
                         result |-> FALSE]
       ELSE /\ user' = NoUser
            /\ rlast' = [NoCall EXCEPT !.op = "init", !.arg = senha]
    /\ UNCHANGED <<storeVars, callVars>>

SetPassword(senha, salt) ==
    /\ user.made
    /\ user' = add_password(user, senha, salt)
    /\ rlast' = [op |-> "add_password", made |-> TRUE, arg |-> senha, set |-> senha,
                 result |-> FALSE]
    /\ UNCHANGED <<storeVars, callVars>>

VerifyPassword(senha) ==
    /\ user.made
    /\ rlast' = [rlast EXCEPT !.op = "check_password", !.arg = senha,
                              !.result = check_password(user, senha)]
    /\ UNCHANGED <<user, storeVars, callVars>>

----------------------------------------------------------------------------
(* State *)

\* The last call: the method, the instance, its cpf argument (0 when it has
\* none), and what it did and returned.
Last(op, s, cpf, res) ==
    [op |-> op, store |-> s, cpf |-> cpf, raised |-> res.raised, wrote |-> res.wrote,
     ok |-> res.ok, reason |-> res.reason, out |-> res.out]

NoLast(op) ==
    [op |-> op, store |-> 1, cpf |-> 0, raised |-> FALSE, wrote |-> FALSE,
     ok |-> FALSE, reason |-> "", out |-> None]

\* Every instance has been constructed on the path, which held no file.
StoreInit ==
    /\ db = [s \in Stores |-> <<>>]
    /\ file = write_to_file(<<>>)
    /\ last = NoLast("none")

\* UserDatabase(path): a new instance takes the place of instance s.  When
\* the initial load raises, no instance is returned and s stays as it was.
Construct(s) ==
    LET r == try_read_from_file(<<>>, file)
        res == Ret(IF r.raised THEN Step(db[s], file, TRUE, FALSE) ELSE r, ~r.raised, "", None)
    IN  /\ db' = [db EXCEPT ![s] = res.db]
        /\ file' = res.file
        /\ last' = Last("init", s, 0, res)
        /\ UNCHANGED <<recordVars, callVars>>

ReloadFromFile(s) ==
    LET r == try_read_from_file(db[s], file)
        res == Ret(r, ~r.raised, "", None)
    IN  /\ db' = [db EXCEPT ![s] = res.db]
        /\ file' = res.file
        /\ last' = Last("try_read_from_file", s, 0, res)
        /\ UNCHANGED <<recordVars, callVars>>

PersistToFile(s) ==
    LET res == Ret(Step(db[s], write_to_file(db[s]), FALSE, TRUE), TRUE, "", None)
    IN  /\ db' = [db EXCEPT ![s] = res.db]
        /\ file' = res.file
        /\ last' = Last("write_to_file", s, 0, res)
        /\ UNCHANGED <<recordVars, callVars>>

AddUser(s, u, update) ==
    LET res == add_user(db[s], file, u, update)
    IN  /\ db' = [db EXCEPT ![s] = res.db]
        /\ file' = res.file
        /\ last' = Last("add_user", s, u.cpf, res)
        /\ UNCHANGED <<recordVars, callVars>>

Signup(s, u) ==
    LET res == add_user(db[s], file, u, TRUE)
    IN  /\ db' = [db EXCEPT ![s] = res.db]
        /\ file' = res.file
        /\ last' = Last("signup", s, u.cpf, res)
        /\ UNCHANGED <<recordVars, callVars>>

RemoveByNationalId(s, cpf, update) ==
    LET res == remove_user_by_cpf(db[s], file, cpf, update)
    IN  /\ db' = [db EXCEPT ![s] = res.db]
        /\ file' = res.file
        /\ last' = Last("remove_user_by_cpf", s, cpf, res)
        /\ UNCHANGED <<recordVars, callVars>>

GetByNationalId(s, cpf, update) ==
    LET r == Reload(db[s], file, update)
        res == Ret(r, ~r.raised, "", IF r.raised THEN None ELSE get_user_by_cpf(r.db, cpf))
    IN  /\ db' = [db EXCEPT ![s] = res.db]
        /\ file' = res.file
        /\ last' = Last("get_user_by_cpf", s, cpf, res)
        /\ UNCHANGED <<recordVars, callVars>>

GetByUsername(s, username, update) ==
    LET r == Reload(db[s], file, update)
        res == Ret(r, ~r.raised, "",
                   IF r.raised THEN None ELSE get_user_by_username(r.db, username))
    IN  /\ db' = [db EXCEPT ![s] = res.db]
        /\ file' = res.file
        /\ last' = Last("get_user_by_username", s, 0, res)
        /\ UNCHANGED <<recordVars, callVars>>

ListAll(s, update) ==
    LET r == Reload(db[s], file, update)
        res == Ret(r, ~r.raised, "", IF r.raised THEN None ELSE get_user_list(r.db))
    IN  /\ db' = [db EXCEPT ![s] = res.db]
        /\ file' = res.file
        /\ last' = Last("get_user_list", s, 0, res)
        /\ UNCHANGED <<recordVars, callVars>>

\* The environment: the file is removed, or overwritten with content that
\* is not a serialized mapping.
MalformedKinds == {"array", "empty", "garbage"}

EnvDeleteFile ==
    /\ file.exists
    /\ file' = NoFile
    /\ last' = NoLast("env")
    /\ UNCHANGED <<db, recordVars, callVars>>

EnvCorruptFile(kind) ==
    /\ file' = [exists |-> TRUE, text |-> [kind |-> kind, items |-> <<>>]]
    /\ file' # file
    /\ last' = NoLast("env")
    /\ UNCHANGED <<db, recordVars, callVars>>

\* add_user in two steps, for callers that are not serialized: the reload
\* (lines 133-134) is one read of the file, the checks, the insertion and
\* write_to_file (lines 135-141) follow in a later step.  call[s] records
\* where instance s is, the dict it had after its reload, what it returned,
\* and whether a write of another instance fell between its reload and its
\* own write.
\* add_user calls an instance makes in this way
MaxCalls == 2

NoRecord == [cpf |-> 0, username |-> 0, nome |-> 0]

Idle ==
    [at |-> "idle", n |-> 0, u |-> NoRecord, update |-> FALSE, seen |-> <<>>,
     raced |-> FALSE, ok |-> FALSE, reason |-> ""]

AddUserReload(s, u, update) ==
    LET r == Reload(db[s], file, update)
    IN  /\ call[s].at # "reloaded"
        /\ call[s].n < MaxCalls
        /\ db' = [db EXCEPT ![s] = r.db]
        /\ file' = r.file
        /\ call' = [call EXCEPT ![s] =
                      [at |-> IF r.raised THEN "returned" ELSE "reloaded",
                       n |-> call[s].n + 1, u |-> u,
                       update |-> update, seen |-> r.db, raced |-> FALSE, ok |-> FALSE,
                       reason |-> IF r.raised THEN "RAISED" ELSE ""]]
        /\ last' = IF r.raised THEN Last("add_user", s, u.cpf, Ret(r, FALSE, "RAISED", None))
                   ELSE last
        /\ UNCHANGED recordVars

AddUserFinish(s) ==
    LET res == finish_add_user(db[s], file, call[s].u)
        inflight == {o \in Stores \ {s} : call[o].at = "reloaded"}
    IN  /\ call[s].at = "reloaded"
        /\ db' = [db EXCEPT ![s] = res.db]
        /\ file' = res.file
        /\ last' = Last("add_user", s, call[s].u.cpf, res)
        /\ call' = [o \in Stores |->
                      IF o = s
                      THEN [call[s] EXCEPT !.at = "returned", !.ok = res.ok,
                                           !.reason = res.reason,
                                           !.raced = @ \/ (res.wrote /\ inflight # {})]
                      ELSE IF o \in inflight /\ res.wrote
                           THEN [call[o] EXCEPT !.raced = TRUE]
                           ELSE call[o]]
        /\ UNCHANGED recordVars

Init ==
    /\ StoreInit
    /\ user = NoUser
    /\ rlast = NoCall
    /\ call = [s \in Stores |-> Idle]

\* the calls open to the instances in S
Calls(S) ==
    \/ \E s \in S : Construct(s)
    \/ \E s \in S : ReloadFromFile(s)
    \/ \E s \in S : PersistToFile(s)
    \/ \E s \in S, u \in Users, update \in BOOLEAN : AddUser(s, u, update)
    \/ \E s \in S, u \in Users : Signup(s, u)
    \/ \E s \in S, cpf \in CPFs, update \in BOOLEAN : RemoveByNationalId(s, cpf, update)
    \/ \E s \in S, cpf \in CPFs, update \in BOOLEAN : GetByNationalId(s, cpf, update)
    \/ \E s \in S, n \in Names, update \in BOOLEAN : GetByUsername(s, n, update)
    \/ \E s \in S, update \in BOOLEAN : ListAll(s, update)

\* One instance, and an environment that removes or damages the file.
Next ==
    \/ Calls({s \in Stores : s = 1})
    \/ EnvDeleteFile
    \/ \E kind \in MalformedKinds : EnvCorruptFile(kind)

Spec == Init /\ [][Next]_vars

\* Several instances on one file, one whole call at a time.
SharedNext == Calls(Stores)

SpecShared == Init /\ [][SharedNext]_vars

\* Several instances on one file, one whole call at a time, every call with
\* the default update=True.
DefaultNext ==
    \/ \E s \in Stores : Construct(s)
    \/ \E s \in Stores : ReloadFromFile(s)
    \/ \E s \in Stores, u \in Users : AddUser(s, u, TRUE)
    \/ \E s \in Stores, u \in Users : Signup(s, u)
    \/ \E s \in Stores, cpf \in CPFs : RemoveByNationalId(s, cpf, TRUE)
    \/ \E s \in Stores, cpf \in CPFs : GetByNationalId(s, cpf, TRUE)
    \/ \E s \in Stores, n \in Names : GetByUsername(s, n, TRUE)
    \/ \E s \in Stores : ListAll(s, TRUE)

SpecDefault == Init /\ [][DefaultNext]_vars

\* Several instances on one file whose add_user calls are not serialized.
RaceNext ==
    \/ \E s \in Stores, u \in Users, update \in BOOLEAN : AddUserReload(s, u, update)
    \/ \E s \in Stores : AddUserFinish(s)

SpecRace == Init /\ [][RaceNext]_vars

RecordNext ==
    \/ \E cpf \in CpfInputs, email \in EmailInputs, senha \in Senhas, CEP \in CepInputs,
          salt \in Salts : NewUser(1, 1, cpf, email, senha, CEP, salt)
    \/ \E senha \in Senhas, salt \in Salts : SetPassword(senha, salt)
    \/ \E senha \in Senhas : VerifyPassword(senha)

SpecRecord == Init /\ [][RecordNext]_vars

----------------------------------------------------------------------------
(* Vocabulary of the properties *)

\* an add_user call, made directly or through signup (update defaults to True)
AddStep(s, u, update) ==
    /\ last'.op \in {"add_user", "signup"} /\ last'.store = s /\ last'.cpf = u.cpf
    /\ AddUser(s, u, update) \/ (update /\ Signup(s, u))

\* a remove_user_by_cpf call
RemoveStep(s, cpf, update) ==
    /\ last'.op = "remove_user_by_cpf" /\ last'.store = s /\ last'.cpf = cpf
    /\ RemoveByNationalId(s, cpf, update)

IsAdd(l) == l.op \in {"add_user", "signup"}

\* the instance's dict once the optional reload is done
AfterReload(s, update) == Reload(db[s], file, update)

\* the file holds a serialized mapping
WellFormed(f) == f.exists /\ f.text.kind = "object"

\* the mapping held by a well-formed file
FileDict(f) == jsonpickle_decode(f.text).value

StoredUsers(d) == {d[i].val : i \in DOMAIN d}

----------------------------------------------------------------------------
\* C1 (as stated): add_user of a record whose cpf is a key of the dict after
\* the optional reload returns (False, "CPF"); and of two consecutive
\* add_user calls on one instance with records of the same cpf, both
\* returning, the second returns (False, "CPF").
C1_Original ==
    [][\A s \in Stores, u \in Users, update \in BOOLEAN :
         AddStep(s, u, update) =>
            /\ (~AfterReload(s, update).raised /\ u.cpf \in dict_keys(AfterReload(s, update).db))
                  => (~last'.ok /\ last'.reason = "CPF")
            /\ (IsAdd(last) /\ last.store = s /\ last.cpf = u.cpf /\ ~last.raised /\ ~last'.raised)
                  => (~last'.ok /\ last'.reason = "CPF")]_vars

\* C1 (amended): add_user of a record whose cpf is a key of the dict after
\* the optional reload returns (False, "CPF"); and when an add_user call
\* returned (True, "SUCCESS"), the next call on that instance, if it is an
\* add_user of a record with the same cpf, returns (False, "CPF").
C1_DuplicateCpf ==
    [][\A s \in Stores, u \in Users, update \in BOOLEAN :
         AddStep(s, u, update) =>
            /\ (~AfterReload(s, update).raised /\ u.cpf \in dict_keys(AfterReload(s, update).db))
                  => (~last'.ok /\ last'.reason = "CPF")
            /\ (IsAdd(last) /\ last.store = s /\ last.cpf = u.cpf /\ last.ok)
                  => (~last'.raised /\ ~last'.ok /\ last'.reason = "CPF")]_vars

C1_Witness ==
    /\ IsAdd(last) /\ ~last.ok /\ last.reason = "CPF"
    /\ last.cpf \in dict_keys(db[last.store])

UniqueUsernames(d) ==
    \A i, j \in DOMAIN d : d[i].val.username = d[j].val.username => i = j

C3_UsernameUnique ==
    /\ \A s \in Stores : UniqueUsernames(db[s])
    /\ WellFormed(file) => UniqueUsernames(FileDict(file))

\* C4: when neither duplicate check fires, add_user returns (True,
\* "SUCCESS"); afterwards the dict and the file map the record's cpf to the
\* record, and every other entry of the dict is as it was after the reload.
C4_SuccessInserts ==
    [][\A s \in Stores, u \in Users, update \in BOOLEAN :
         (/\ AddStep(s, u, update)
          /\ ~AfterReload(s, update).raised
          /\ u.cpf \notin dict_keys(AfterReload(s, update).db)
          /\ get_user_by_username(AfterReload(s, update).db, u.nome) = None)
         => /\ last'.ok /\ last'.reason = "SUCCESS"
            /\ dict_get(db'[s], u.cpf) = Some(u)
            /\ WellFormed(file') /\ dict_get(FileDict(file'), u.cpf) = Some(u)
            /\ dict_keys(db'[s]) = dict_keys(AfterReload(s, update).db) \cup {u.cpf}
            /\ \A k \in CPFs \ {u.cpf} :
                  dict_get(db'[s], k) = dict_get(AfterReload(s, update).db, k)]_vars

C4_Witness ==
    /\ IsAdd(last) /\ last.ok /\ last.reason = "SUCCESS"
    /\ Len(db[last.store]) > 1
    /\ FileDict(file) = db[last.store]

C6_Original ==
    [][\A s \in Stores, cpf \in CPFs, update \in BOOLEAN :
         (/\ RemoveStep(s, cpf, update)
          /\ WellFormed(file)
          /\ cpf \notin dict_keys(AfterReload(s, update).db))
         => /\ last'.out = None /\ last'.wrote
            /\ WellFormed(file')
            /\ StoredUsers(FileDict(file')) = StoredUsers(FileDict(file))]_vars

\* C6 (amended): remove_user_by_cpf of a cpf that is not a key of the dict
\* (after the optional reload) returns None and writes the file; when the
\* file held a mapping and either update is true or the dict equalled that
\* mapping, the file holds the same mapping afterwards.
C6_RemoveAbsent ==
    [][\A s \in Stores, cpf \in CPFs, update \in BOOLEAN :
         (/\ RemoveStep(s, cpf, update)
          /\ ~AfterReload(s, update).raised
          /\ cpf \notin dict_keys(AfterReload(s, update).db))
         => /\ last'.out = None /\ last'.wrote /\ WellFormed(file')
            /\ (WellFormed(file) /\ (update \/ db[s] = FileDict(file)))
                  => FileDict(file') = FileDict(file)]_vars

C6_Witness ==
    /\ last.op = "remove_user_by_cpf" /\ ~last.raised
    /\ last.out = None /\ last.wrote
    /\ db[last.store] # <<>>
    /\ FileDict(file) = db[last.store]

\* C7 (as stated): try_read_from_file with the file absent leaves the dict
\* as it was and creates a file holding the empty mapping; construction on
\* a missing path creates a file holding the empty mapping.
C7_Original ==
    [][\A s \in Stores :
         /\ (ReloadFromFile(s) /\ ~file.exists)
               => db'[s] = db[s] /\ file' = write_to_file(<<>>)
         /\ (Construct(s) /\ ~file.exists)
               => file' = write_to_file(<<>>)]_vars

\* C7 (amended): try_read_from_file with the file absent leaves the dict as
\* it was and creates a file holding that dict (the empty mapping only when
\* the dict is empty); construction on a missing path creates a file
\* holding the empty mapping.
C7_AbsentFile ==
    [][\A s \in Stores :
         /\ (ReloadFromFile(s) /\ ~file.exists)
               => /\ db'[s] = db[s] /\ ~last'.raised
                  /\ WellFormed(file') /\ FileDict(file') = db[s]
         /\ (Construct(s) /\ ~file.exists)
               => /\ db'[s] = <<>> /\ ~last'.raised
                  /\ WellFormed(file') /\ FileDict(file') = <<>>]_vars

C7_Witness ==
    /\ last.op = "try_read_from_file" /\ last.wrote
    /\ db[last.store] # <<>>
    /\ FileDict(file) = db[last.store]

\* C8 (as stated): when the file exists and does not hold a serialized
\* mapping, every operation that reloads completes without raising, and a
\* reload leaves the dict as it was.
C8_MalformedIgnored ==
    [][\A s \in Stores :
         (file.exists /\ file.text.kind \in MalformedKinds) =>
            /\ ReloadFromFile(s) => (~last'.raised /\ db'[s] = db[s])
            /\ (\/ Construct(s)
                \/ \E u \in Users : AddStep(s, u, TRUE)
                \/ \E cpf \in CPFs : RemoveStep(s, cpf, TRUE)
                \/ \E cpf \in CPFs : GetByNationalId(s, cpf, TRUE)
                \/ \E n \in Names : GetByUsername(s, n, TRUE)
                \/ ListAll(s, TRUE)) => ~last'.raised]_vars

\* C9: right after construction with password p or add_password(p),
\* check_password(p) is true and check_password(q) is false for every other
\* q; and every check_password call returns whether its argument is the
\* last password set, whatever the salt and the other fields.
C9_VerifyLastPassword ==
    /\ (user.made /\ rlast.op \in {"init", "add_password"})
          => \A q \in Senhas : check_password(user, q) = (q = rlast.arg)
    /\ user.made => \A q \in Senhas : check_password(user, q) = (q = rlast.set)
    /\ rlast.op = "check_password" => rlast.result = (rlast.arg = rlast.set)

C9_Witness ==
    /\ user.made /\ rlast.op = "add_password"
    /\ check_password(user, rlast.arg)
    /\ \E q \in Senhas : q # rlast.arg /\ ~check_password(user, q)

\* C10 (as stated): every password that the stored hash of a record
\* verifies has at least 8 characters, a digit and a letter.
StrongSenha(p) ==
    /\ Len(p) >= MinSenhaLen
    /\ \E i \in DOMAIN p : p[i] \in Digit
    /\ \E i \in DOMAIN p : p[i] \in Letter

C10_StoredPasswordStrong ==
    user.made => \A p \in Senhas : check_password(user, p) => StrongSenha(p)

\* C11 (as stated): a record is constructed only from a cpf that is exactly
\* NNN.NNN.NNN-NN: three digits, dot, three digits, dot, three digits,
\* hyphen, two digits, and nothing else.
ExactCpf(s) == Len(s) = Len(CpfShape) /\ Shaped(s, CpfShape)

C11_MalformedCpfRejected ==
    (rlast.op = "init" /\ user.made) => ExactCpf(user.cpf)

Raced(s, o) ==
    /\ s # o
    /\ call[s].at = "returned" /\ call[o].at = "returned"
    /\ call[s].update /\ call[o].update
    /\ call[s].raced /\ call[o].raced
    /\ call[s].seen = call[o].seen
    /\ call[s].u.cpf # call[o].u.cpf
    /\ IsAdd(last) /\ last.store = o

C13_LostUpdate ==
    \A s, o \in Stores :
        Raced(s, o) =>
            /\ \A x \in {s, o} :
                  call[x].ok = (/\ get_user_by_cpf(call[x].seen, call[x].u.cpf) = None
                                /\ get_user_by_username(call[x].seen, call[x].u.nome) = None)
            /\ (call[s].ok /\ call[o].ok)
                  => /\ call[s].reason = "SUCCESS" /\ call[o].reason = "SUCCESS"
                     /\ WellFormed(file)
                     /\ FileDict(file) = dict_setitem(call[o].seen, call[o].u.cpf, call[o].u)
                     /\ call[s].u \notin StoredUsers(FileDict(file))
                     /\ call[s].u \in StoredUsers(db[s])

\* the two records differ in cpf, username and nome, both calls returned
\* SUCCESS, and the file holds one record
C13_Witness ==
    \E s, o \in Stores :
        /\ Raced(s, o)
        /\ call[s].ok /\ call[o].ok
        /\ {call[s].u.username, call[s].u.nome} \cap {call[o].u.username, call[o].u.nome} = {}
        /\ StoredUsers(FileDict(file)) = {call[o].u}

\* C14 (as stated): remove_user_by_cpf of a cpf that is a key of the dict
\* (after the optional reload) returns the record stored under it;
\* afterwards get_user_by_cpf of that cpf returns None on this instance and
\* on an instance constructed on the same path, and every other entry of
\* the dict and of the file is as it was.
C14_Original ==
    [][\A s \in Stores, cpf \in CPFs, update \in BOOLEAN :
         (/\ RemoveStep(s, cpf, update)
          /\ ~AfterReload(s, update).raised
          /\ cpf \in dict_keys(AfterReload(s, update).db))
         => /\ last'.out = dict_get(AfterReload(s, update).db, cpf)
            /\ \A upd \in BOOLEAN :
                  get_user_by_cpf(Reload(db'[s], file', upd).db, cpf) = None
            /\ get_user_by_cpf(try_read_from_file(<<>>, file').db, cpf) = None
            /\ \A k \in CPFs \ {cpf} :
                  dict_get(db'[s], k) = dict_get(AfterReload(s, update).db, k)
            /\ WellFormed(file)
                  => \A k \in CPFs \ {cpf} :
                        dict_get(FileDict(file'), k) = dict_get(FileDict(file), k)]_vars

\* C14 (amended): as above for the returned record, the lookups and the
\* other entries of the dict; the file afterwards holds the dict of the
\* instance, so its other entries are as they were when update is true or
\* the dict equalled the mapping of the file before the call.
C14_RemovePresent ==
    [][\A s \in Stores, cpf \in CPFs, update \in BOOLEAN :
         (/\ RemoveStep(s, cpf, update)
          /\ ~AfterReload(s, update).raised
          /\ cpf \in dict_keys(AfterReload(s, update).db))
         => /\ last'.out = dict_get(AfterReload(s, update).db, cpf)
            /\ last'.out # None
            /\ \A upd \in BOOLEAN :
                  get_user_by_cpf(Reload(db'[s], file', upd).db, cpf) = None
            /\ get_user_by_cpf(try_read_from_file(<<>>, file').db, cpf) = None
            /\ \A k \in CPFs \ {cpf} :
                  dict_get(db'[s], k) = dict_get(AfterReload(s, update).db, k)
            /\ WellFormed(file') /\ FileDict(file') = db'[s]
            /\ (WellFormed(file) /\ (update \/ db[s] = FileDict(file)))
                  => \A k \in CPFs \ {cpf} :
                        dict_get(FileDict(file'), k) = dict_get(FileDict(file), k)]_vars

C14_Witness ==
    /\ last.op = "remove_user_by_cpf" /\ ~last.raised
    /\ last.out # None /\ last.out[1].cpf = last.cpf
    /\ last.cpf \notin dict_keys(db[last.store])
    /\ Len(db[last.store]) = 1
    /\ FileDict(file) = db[last.store]

\* C15: get_user_list returns the records of the dict, once each, in the
\* order of the dict; a successful add_user puts its record after all the
\* others and remove_user_by_cpf takes one out without reordering the rest,
\* so the order is the insertion order and a record removed and added again
\* is last; the order is the same after write_to_file followed by a reload
\* or a construction on the same path.
C15_InsertionOrder ==
    [][\A s \in Stores :
         /\ \A update \in BOOLEAN :
               (ListAll(s, update) /\ ~last'.raised)
               => /\ Len(last'.out) = Cardinality(dict_keys(AfterReload(s, update).db))
                  /\ \A i \in DOMAIN last'.out :
                        last'.out[i] = AfterReload(s, update).db[i].val
         /\ \A u \in Users, update \in BOOLEAN :
               (AddStep(s, u, update) /\ last'.ok)
               => /\ get_user_list(db'[s]) =
                        Append(get_user_list(AfterReload(s, update).db), u)
                  /\ (last.op = "remove_user_by_cpf" /\ last.cpf = u.cpf)
                        => get_user_list(db'[s])[Len(db'[s])] = u
         /\ \A cpf \in CPFs, update \in BOOLEAN :
               (RemoveStep(s, cpf, update) /\ ~last'.raised)
               => get_user_list(db'[s]) =
                     SelectSeq(get_user_list(AfterReload(s, update).db),
                               LAMBDA r : r.cpf # cpf)
         /\ (last.op = "write_to_file" /\ last.store = s
              /\ (ReloadFromFile(s) \/ Construct(s)))
               => /\ ~last'.raised
                  /\ get_user_list(db'[s]) = get_user_list(db[s])]_vars

\* the list holds the record of cpf 2 before the record of cpf 1
C15_Witness ==
    /\ last.op = "get_user_list" /\ ~last.raised
    /\ Len(last.out) = 2
    /\ last.out[1].cpf > last.out[2].cpf
    /\ last.out = get_user_list(db[last.store])

\* C16: when the cpf of the new record is a key of the dict and the
\* username lookup of its nome finds a stored record (both after the
\* optional reload), add_user returns (False, "CPF"), not (False, "USER").
C16_CpfBeforeUsername ==
    [][\A s \in Stores, u \in Users, update \in BOOLEAN :
         (/\ AddStep(s, u, update)
          /\ ~AfterReload(s, update).raised
          /\ u.cpf \in dict_keys(AfterReload(s, update).db)
          /\ get_user_by_username(AfterReload(s, update).db, u.nome) # None)
         => /\ ~last'.ok
            /\ last'.reason = "CPF"
            /\ last'.reason # "USER"]_vars

\* every name is a stored username, so the lookup of the rejected record's
\* nome finds a record whatever that nome was
C16_Witness ==
    /\ IsAdd(last) /\ ~last.ok /\ last.reason = "CPF"
    /\ last.cpf \in dict_keys(db[last.store])
    /\ \A n \in Names : get_user_by_username(db[last.store], n) # None

\* C17: an add_user that returns (False, "CPF") or (False, "USER") while
\* the file exists does not write the file, whose content stays as it was;
\* with update=False the dict stays as it was too.
C17_FailedAddNoWrite ==
    [][\A s \in Stores, u \in Users, update \in BOOLEAN :
         (/\ AddStep(s, u, update)
          /\ file.exists
          /\ ~last'.ok /\ last'.reason \in {"CPF", "USER"})
         => /\ ~last'.wrote
            /\ file' = file
            /\ ~update => db'[s] = db[s]]_vars

\* the file held something other than the dict of the instance, and still
\* does after the failed call
C17_Witness ==
    /\ IsAdd(last) /\ ~last.ok /\ last.reason \in {"CPF", "USER"}
    /\ ~last.wrote
    /\ file.exists /\ file.text.kind = "array"
    /\ db[last.store] # <<>>

\* C18: right after an add_user that returned (True, "SUCCESS") and right
\* after a remove_user_by_cpf that returned, for either value of update,
\* the file holds a mapping equal to the dict of the instance that made
\* the call.
C18_WriteThrough ==
    ((IsAdd(last) /\ last.ok) \/ (last.op = "remove_user_by_cpf" /\ ~last.raised))
    => /\ last.wrote
       /\ WellFormed(file)
       /\ FileDict(file) = db[last.store]

\* a removal that took a record out, leaving a dict that another instance
\* does not share
C18_Witness ==
    /\ last.op = "remove_user_by_cpf" /\ ~last.raised /\ last.out # None
    /\ db[last.store] # <<>>
    /\ FileDict(file) = db[last.store]
    /\ \E s \in Stores : db[s] # db[last.store]

\* C19: every entry of the dict of every instance, and of the mapping held
\* by the file, is keyed by the cpf of its record, and no two entries have
\* the same key, so no two stored records have the same cpf.
KeyedByCpf(d) ==
    /\ \A i \in DOMAIN d : d[i].val.cpf = d[i].key
    /\ \A i, j \in DOMAIN d : d[i].val.cpf = d[j].val.cpf => i = j

C19_KeyedByCpf ==
    /\ \A s \in Stores : KeyedByCpf(db[s])
    /\ WellFormed(file) /\ KeyedByCpf(FileDict(file))

\* an instance has reloaded a mapping of two records that another
\* instance wrote
C19_Witness ==
    /\ last.op \in {"init", "try_read_from_file"} /\ ~last.raised /\ ~last.wrote
    /\ Len(db[last.store]) = 2
    /\ FileDict(file) = db[last.store]
    /\ \E s \in Stores : s # last.store /\ db[s] = db[last.store]

====
